---- MODULE Spec2Model ----
(***************************************************************************)
(* Model of the connectivity-run engine of connectivity-tester.py: one     *)
(* result window (one Treeview key in `runs`), the Tk main thread with its *)
(* timer queue (`after`), and one worker thread per dispatched probe.      *)
(*                                                                         *)
(* Time is counted in ticks of 100 ms, the grace delay of a restart.  A    *)
(* probe may take any time (up to its 2 s timeout, i.e. longer than every  *)
(* delay of the model), so its completion is not timed.                    *)
(***************************************************************************)
EXTENDS Integers, Sequences, FiniteSets

\* ---------------------------------------------------------------- bounds
NumTasks == 2        \* rows of ResourcesToCheck.csv (len(tasks))
MaxRuns  == 2        \* ConnectivityRun objects created in one behaviour
MaxDelay == 1        \* largest "Delay between tests" the user enters, in ticks

\* ------------------------------------------------------- program constants
GraceTicks == 1      \* result_window.after(100, ...): one tick of 100 ms

RunIds  == 1..MaxRuns
Indices == 0..(NumTasks - 1)
Delays  == (0 - 1)..MaxDelay     \* delay_ms as entered (a negative entry too)

\* What the platform does with one probe.  sock.connect_ex reports the result
\* of the C-level connect() as a code, also a refusal and the expiry of the
\* 2 s timeout; what is raised inside the try block is the error of
\* socket.socket(), of sock.bind() or of resolving dest_ip.
CodeOutcomes  == {"connected", "code_refused", "code_timeout", "code_other"}
RaiseOutcomes == {"raise_nosocket", "raise_other"}
OsOutcomes    == CodeOutcomes \cup RaiseOutcomes

\* the outcomes the engine specifications draw from: the connect succeeded
\* or was refused
PlainOutcomes == {"connected", "code_refused"}

VARIABLES
    runs,        \* runs[tree]: id of the registered ConnectivityRun, 0 = no entry
    nruns,       \* number of ConnectivityRun objects created so far
    stop_flag,   \* stop_flag[r]: ConnectivityRun.stop_flag
    index,       \* index[r]: ConnectivityRun.index
    rows,        \* the Result column of the Treeview, row by row
    winOpen,     \* the result window (and its Treeview) exists
    threads,     \* the scan_worker threads, in order of creation
    timers,      \* pending `after` callbacks, in the order Tk will fire them
    last         \* "Test" when the last step was the user pressing Test (history only)

vars == <<runs, nruns, stop_flag, index, rows, winOpen, threads, timers, last>>

\* ------------------------------------------------------------ the probe
\* a faulty variant of connect_to_host: the handler of line 55 is missing
connect_to_host_NoCatchAll(os) ==
    IF os \in CodeOutcomes
    THEN [success |-> os = "connected", elapsed |-> TRUE,
          text |-> IF os = "connected" THEN "" ELSE "UNSUCCESSFUL", raised |-> FALSE]
    ELSE IF os = "raise_timeout"
    THEN [success |-> FALSE, elapsed |-> FALSE,
          text |-> "Connection timed out", raised |-> FALSE]
    ELSE IF os = "raise_refused"
    THEN [success |-> FALSE, elapsed |-> FALSE,
          text |-> "Connection refused by remote host", raised |-> FALSE]
    ELSE [success |-> FALSE, elapsed |-> FALSE, text |-> "", raised |-> TRUE]

\* _connect_to_host: (success, elapsed_ms is not None, error text), and
\* whether an exception leaves the function.  The try body returns at line 45
\* when connect_ex returned a code; "raise_timeout" is a socket.timeout and
\* "raise_refused" a ConnectionRefusedError raised in the try body, every
\* other value is any other Exception.
connect_to_host(os) ==
    IF os \in CodeOutcomes
    THEN [success |-> os = "connected", elapsed |-> TRUE,
          text |-> IF os = "connected" THEN "" ELSE "UNSUCCESSFUL", raised |-> FALSE]
    ELSE IF os = "raise_timeout"
    THEN [success |-> FALSE, elapsed |-> FALSE,
          text |-> "Connection timed out", raised |-> FALSE]
    ELSE IF os = "raise_refused"
    THEN [success |-> FALSE, elapsed |-> FALSE,
          text |-> "Connection refused by remote host", raised |-> FALSE]
    ELSE [success |-> FALSE, elapsed |-> FALSE,
          text |-> "Error: message", raised |-> FALSE]

\* The socket of the probe when _connect_to_host is left: sock.close() (line
\* 40) is reached only when connect_ex returned.  When an exception is raised
\* after socket.socket() the function does not close the socket: it is closed
\* when the interpreter finalizes the object, at the return or later.
SocketAfter(os) ==
    IF os \in CodeOutcomes THEN {"closed"}
    ELSE IF os = "raise_nosocket" THEN {"none"}
    ELSE {"closed", "open"}

\* status_text of scan_worker
status_text(os) ==
    IF connect_to_host(os).success THEN "SUCCESSFUL" ELSE connect_to_host(os).text

RowTexts == {"Not tested", "Testing", "Cancelled", "SUCCESSFUL", "UNSUCCESSFUL",
             "Connection timed out", "Connection refused by remote host",
             "Error: message"}

\* --------------------------------------------------------- the timer queue
\* Tk keeps its timer handlers sorted by due time; a new handler goes behind
\* every handler that is due at the same time or earlier.
InsertTimer(q, tm) ==
    LET k == Cardinality({i \in 1..Len(q) : q[i].left <= tm.left})
    IN  SubSeq(q, 1, k) \o <<tm>> \o SubSeq(q, k + 1, Len(q))

Timer(kind, thr, idx, delay, text, left) ==
    [kind |-> kind, thr |-> thr, idx |-> idx, delay |-> delay, text |-> text,
     left |-> left]

PendingRestarts == Cardinality({i \in 1..Len(timers) : timers[i].kind = "restart"})

\* ------------------------------------------------------------- run engine
\* a faulty variant of stop: the flag is set on the class, for every run
stop_OnClass(flags, r) == [x \in DOMAIN flags |-> TRUE]

\* a faulty variant of stop: the flag is flipped instead of set
stop_Toggle(flags, r) == [flags EXCEPT ![r] = ~flags[r]]

\* ConnectivityRun.stop
stop(flags, r) == [flags EXCEPT ![r] = TRUE]

\* the rows stop_running_tests and _on_result_window_close turn to Cancelled
Unfinished(text) == text \in {"Testing", "Not tested"}

\* a faulty variant of CancelRows: every row is overwritten
CancelRows_All(rs) == [i \in DOMAIN rs |-> "Cancelled"]

CancelRows(rs) ==
    [i \in DOMAIN rs |-> IF Unfinished(rs[i]) THEN "Cancelled" ELSE rs[i]]

\* start_connectivity_check line 157: an existing run is "in progress"
RunInProgress == runs # 0 /\ ~stop_flag[runs]

\* len(run.tasks): load_tasks reads the CSV file the rows of the tree were
\* loaded from, one task per row
len_tasks == Len(rows)

\* a faulty variant of CanDispatch: the stop_flag is not consulted
CanDispatch_IgnoreStop(r, idx) == r # 0 /\ idx < len_tasks

\* a faulty variant of CanDispatch: the bound on the index is off by one
CanDispatch_OffByOne(r, idx) == r # 0 /\ ~stop_flag[r] /\ idx <= len_tasks

\* run_task_async line 217, negated: the guard looks the run up in `runs`
CanDispatch(r, idx) == r # 0 /\ ~stop_flag[r] /\ idx < len_tasks

\* scan_worker line 263
ClampDelay(d) == IF d < 0 THEN 0 ELSE d

\* a faulty variant of NextIndex: the continuation skips a task
NextIndex_Skip(idx) == idx + 2

\* scan_worker line 268: the index the continuation is scheduled with
NextIndex(idx) == idx + 1

\* a new scan_worker thread of run r for tasks[idx]
NewThread(r, idx, d) ==
    [run |-> r, idx |-> idx, delay |-> d, pc |-> "start",
     os |-> "", sock |-> "none",
     cancelled |-> FALSE, started |-> FALSE, reported |-> FALSE]

Init ==
    /\ runs = 0
    /\ nruns = 0
    /\ stop_flag = [r \in RunIds |-> FALSE]
    /\ index = [r \in RunIds |-> 0]
    /\ rows = [i \in 1..NumTasks |-> "Not tested"]
    /\ winOpen = TRUE
    /\ threads = <<>>
    /\ timers = <<>>
    /\ last = "init"

\* start_connectivity_check(..., delay_ms = d), on the timer queue q
start_connectivity_check(d, q) ==
    IF RunInProgress
    THEN /\ stop_flag' = stop(stop_flag, runs)
         /\ timers' = InsertTimer(q, Timer("restart", 0, 0, d, "", GraceTicks))
         /\ UNCHANGED <<runs, nruns, index, rows, threads>>
    ELSE /\ nruns < MaxRuns
         /\ nruns' = nruns + 1
         /\ runs' = nruns + 1
         /\ rows' = [i \in 1..len_tasks |-> "Testing"]
         /\ timers' = q
         /\ IF CanDispatch(nruns + 1, 0)
            THEN /\ index' = [index EXCEPT ![nruns + 1] = 0]
                 /\ threads' = Append(threads, NewThread(nruns + 1, 0, d))
            ELSE UNCHANGED <<index, threads>>
         /\ UNCHANGED stop_flag

\* the user presses Test
Test ==
    /\ winOpen
    /\ nruns + PendingRestarts < MaxRuns
    /\ \E d \in Delays : start_connectivity_check(d, timers)
    /\ last' = "Test"
    /\ UNCHANGED winOpen

\* the user presses Stop: stop_running_tests
stop_running_tests ==
    /\ winOpen
    /\ IF runs = 0
       THEN UNCHANGED <<rows, stop_flag>>
       ELSE /\ rows' = CancelRows(rows)
            /\ stop_flag' = stop(stop_flag, runs)
    /\ last' = "other"
    /\ UNCHANGED <<runs, nruns, index, winOpen, threads, timers>>

\* _on_result_window_close: the window manager's close button
on_result_window_close ==
    /\ winOpen
    /\ IF runs = 0
       THEN UNCHANGED <<rows, stop_flag>>
       ELSE /\ rows' = CancelRows(rows)
            /\ stop_flag' = stop(stop_flag, runs)
    /\ winOpen' = FALSE
    /\ timers' = <<>>          \* win.destroy() deletes the pending callbacks
    /\ last' = "other"
    /\ UNCHANGED <<runs, nruns, index, threads>>

\* _close_all_results: Escape destroys the window without stopping the run
close_all_results ==
    /\ winOpen
    /\ winOpen' = FALSE
    /\ timers' = <<>>
    /\ last' = "other"
    /\ UNCHANGED <<runs, nruns, stop_flag, index, rows, threads>>

\* ---------------------------------------------------- scan_worker (thread)
\* step 1: tree.after(0, set_testing)
WorkerMarkTesting(t) ==
    /\ threads[t].pc = "start"
    /\ threads' = [threads EXCEPT ![t].pc = "probing"]
    /\ timers' = InsertTimer(timers, Timer("set_testing", t, threads[t].idx, 0, "", 0))
    /\ last' = "other"
    /\ UNCHANGED <<runs, nruns, stop_flag, index, rows, winOpen>>

\* steps 2 and 3: _connect_to_host is left with the platform's outcome os and
\* the socket in state sk, then tree.after(0, update_ui); an exception that
\* leaves _connect_to_host ends the thread
ProbeReturns(t, os, sk) ==
    /\ threads[t].pc = "probing"
    /\ IF connect_to_host(os).raised
       THEN /\ threads' = [threads EXCEPT ![t].pc = "died", ![t].os = os,
                                           ![t].sock = sk, ![t].delay = 0]
            /\ UNCHANGED timers
       ELSE /\ threads' = [threads EXCEPT ![t].pc = "check", ![t].os = os,
                                           ![t].sock = sk,
                                           ![t].cancelled = stop_flag[threads[t].run]]
            /\ timers' = InsertTimer(timers,
                            Timer("update_ui", t, threads[t].idx, 0, status_text(os), 0))
    /\ last' = "other"
    /\ UNCHANGED <<runs, nruns, stop_flag, index, rows, winOpen>>

\* the connect succeeded or was refused
WorkerProbeDone(t) ==
    \E os \in PlainOutcomes : \E sk \in SocketAfter(os) : ProbeReturns(t, os, sk)

\* any other outcome of the probe
WorkerProbeFault(t) ==
    \E os \in OsOutcomes \ PlainOutcomes :
        \E sk \in SocketAfter(os) : ProbeReturns(t, os, sk)

\* step 4, line 262: the worker reads its own run's stop_flag
WorkerCheckStop(t) ==
    /\ threads[t].pc = "check"
    /\ threads' = IF stop_flag[threads[t].run]
                  THEN [threads EXCEPT ![t].pc = "done", ![t].delay = 0, ![t].os = ""]
                  ELSE [threads EXCEPT ![t].pc = "schedule"]
    /\ last' = "other"
    /\ UNCHANGED <<runs, nruns, stop_flag, index, rows, winOpen, timers>>

\* step 4, lines 263-270: tree.after(next_delay, run_task_async(index + 1))
WorkerScheduleNext(t) ==
    /\ threads[t].pc = "schedule"
    /\ threads' = [threads EXCEPT ![t].pc = "done", ![t].delay = 0, ![t].os = ""]
    /\ timers' = InsertTimer(timers,
                    Timer("next", t, NextIndex(threads[t].idx),
                          ClampDelay(threads[t].delay), "", ClampDelay(threads[t].delay)))
    /\ last' = "other"
    /\ UNCHANGED <<runs, nruns, stop_flag, index, rows, winOpen>>

\* -------------------------------------------- callbacks on the main thread
Due(kind) == timers # <<>> /\ Head(timers).left = 0 /\ Head(timers).kind = kind

\* set_testing, lines 226-235
set_testing ==
    /\ Due("set_testing")
    /\ LET t == Head(timers).thr IN
         IF stop_flag[threads[t].run] \/ ~winOpen
         THEN UNCHANGED <<rows, threads>>
         ELSE /\ rows' = [rows EXCEPT ![threads[t].idx + 1] = "Testing"]
              /\ threads' = [threads EXCEPT ![t].started = TRUE]
    /\ timers' = Tail(timers)
    /\ last' = "other"
    /\ UNCHANGED <<runs, nruns, stop_flag, index, winOpen>>

\* update_ui, lines 246-258
update_ui ==
    /\ Due("update_ui")
    /\ LET t == Head(timers).thr IN
         IF ~winOpen
         THEN UNCHANGED <<rows, threads>>
         ELSE /\ rows' = [rows EXCEPT ![threads[t].idx + 1] = Head(timers).text]
              /\ threads' = [threads EXCEPT ![t].reported = TRUE]
    /\ timers' = Tail(timers)
    /\ last' = "other"
    /\ UNCHANGED <<runs, nruns, stop_flag, index, winOpen>>

\* run_task_async(tasks, tree, idx, ..., delay_ms = d), lines 215-220 and 272-274
run_task_async ==
    /\ Due("next")
    /\ LET idx == Head(timers).idx
           d   == Head(timers).delay
       IN  IF CanDispatch(runs, idx)
           THEN /\ index' = [index EXCEPT ![runs] = idx]
                /\ threads' = Append(threads, NewThread(runs, idx, d))
           ELSE UNCHANGED <<index, threads>>
    /\ timers' = Tail(timers)
    /\ last' = "other"
    /\ UNCHANGED <<runs, nruns, stop_flag, rows, winOpen>>

\* the deferred restart of lines 159-165 fires
Restart ==
    /\ Due("restart")
    /\ start_connectivity_check(Head(timers).delay, Tail(timers))
    /\ last' = "other"
    /\ UNCHANGED winOpen

\* 100 ms pass
Tick ==
    /\ \E i \in 1..Len(timers) : timers[i].left > 0
    /\ timers' = [i \in 1..Len(timers) |->
                    IF timers[i].left > 0
                    THEN [timers[i] EXCEPT !.left = @ - 1]
                    ELSE timers[i]]
    /\ last' = "other"
    /\ UNCHANGED <<runs, nruns, stop_flag, index, rows, winOpen, threads>>

Worker ==
    \E t \in 1..Len(threads) :
        \/ WorkerMarkTesting(t)
        \/ WorkerProbeDone(t)
        \/ WorkerCheckStop(t)
        \/ WorkerScheduleNext(t)

Next ==
    \/ Test
    \/ stop_running_tests
    \/ on_result_window_close
    \/ close_all_results
    \/ Worker
    \/ set_testing
    \/ update_ui
    \/ run_task_async
    \/ Restart
    \/ Tick

Spec == Init /\ [][Next]_vars

\* The user only ever presses Test: every stop is the stop of a restart.
NextTestOnly ==
    \/ Test
    \/ Worker
    \/ set_testing
    \/ update_ui
    \/ run_task_async
    \/ Restart
    \/ Tick

SpecTestOnly == Init /\ [][NextTestOnly]_vars

\* The user presses Test, also while a restart is pending.  (Test keeps one
\* of the MaxRuns runs for every pending restart; here a restart that finds
\* them used up stays pending.)
TestAnyTime ==
    /\ winOpen
    /\ nruns < MaxRuns
    /\ \E d \in Delays : start_connectivity_check(d, timers)
    /\ last' = "Test"
    /\ UNCHANGED winOpen

NextTestAnyTime ==
    \/ TestAnyTime
    \/ Worker
    \/ set_testing
    \/ update_ui
    \/ run_task_async
    \/ Restart
    \/ Tick

SpecTestAnyTime == Init /\ [][NextTestAnyTime]_vars

\* The same with a CSV file of one more task.
InitLongerList ==
    /\ runs = 0
    /\ nruns = 0
    /\ stop_flag = [r \in RunIds |-> FALSE]
    /\ index = [r \in RunIds |-> 0]
    /\ rows = [i \in 1..(NumTasks + 1) |-> "Not tested"]
    /\ winOpen = TRUE
    /\ threads = <<>>
    /\ timers = <<>>
    /\ last = "init"

SpecLongerList == InitLongerList /\ [][NextTestOnly]_vars

\* The first Test of the window
FirstTest == runs = 0 /\ Test

\* No stop and no restart is requested: the user starts one run and at most
\* closes the window with Escape (which stops nothing).  As stop_flag is
\* never cleared, these are the behaviours of Spec in which the stop_flag of
\* the first run stays unset.
NextNoStop ==
    \/ FirstTest
    \/ close_all_results
    \/ Worker
    \/ set_testing
    \/ update_ui
    \/ run_task_async
    \/ Tick

SpecNoStop == Init /\ [][NextNoStop]_vars

\* One run in a window that stays open, never asked to stop, with every
\* outcome of the probe.
NextFaults ==
    \/ FirstTest
    \/ Worker
    \/ \E t \in 1..Len(threads) : WorkerProbeFault(t)
    \/ set_testing
    \/ update_ui
    \/ run_task_async
    \/ Tick

SpecFaults == Init /\ [][NextFaults]_vars

\* a step of a worker thread, with any outcome of its probe
WorkerStep == Worker \/ \E t \in 1..Len(threads) : WorkerProbeFault(t)

\* The same under the scheduling the program runs with: a worker thread that
\* can take a step takes it (every probe returns, at the latest after its 2 s
\* timeout), the Tk main loop runs the callback that is due, and time passes.
FairFaults ==
    /\ Init /\ [][NextFaults]_vars
    /\ WF_vars(WorkerStep)
    /\ WF_vars(set_testing)
    /\ WF_vars(update_ui)
    /\ WF_vars(run_task_async)
    /\ WF_vars(Tick)

\* The user presses Test and Stop and leaves the window open.
NextButtons ==
    \/ Test
    \/ stop_running_tests
    \/ Worker
    \/ set_testing
    \/ update_ui
    \/ run_task_async
    \/ Restart
    \/ Tick

SpecButtons == Init /\ [][NextButtons]_vars

\* ------------------------------------------------------------ vocabulary
ThreadIds == 1..Len(threads)

ThreadsOf(r) == {t \in ThreadIds : threads[t].run = r}

\* the probe of thread t has not returned yet
InFlight(t) == threads[t].pc \in {"start", "probing"}

Alive(t) == threads[t].pc # "done"

\* the indices run_task_async dispatched for run r, in order of dispatch
RECURSIVE DispatchLog(_, _)
DispatchLog(r, n) ==
    IF n = 0 THEN <<>>
    ELSE IF threads[n].run = r
         THEN Append(DispatchLog(r, n - 1), threads[n].idx)
         ELSE DispatchLog(r, n - 1)

Dispatched(r) == DispatchLog(r, Len(threads))

\* nothing of run r is left to happen: no worker of it is alive and no
\* callback is pending on the (one) tree
Quiescent(r) ==
    /\ ThreadsOf(r) # {}
    /\ \A t \in ThreadsOf(r) : ~Alive(t)
    /\ timers = <<>>

\* The RunState of the specification, read off the code's state: a run that
\* was asked to stop is Stopping while its probe is in flight and Stopped
\* after; a run never asked to stop is Running until nothing of it is left.
RunState(r) ==
    IF stop_flag[r]
    THEN IF \E t \in ThreadsOf(r) : InFlight(t) THEN "Stopping" ELSE "Stopped"
    ELSE IF Quiescent(r) THEN "Stopped" ELSE "Running"

TimerKinds == {"set_testing", "update_ui", "next", "restart"}

TypeOK ==
    /\ runs \in 0..MaxRuns /\ nruns \in 0..MaxRuns /\ runs = nruns
    /\ stop_flag \in [RunIds -> BOOLEAN]
    /\ len_tasks \in {NumTasks, NumTasks + 1}
    /\ index \in [RunIds -> 0..(len_tasks - 1)]
    /\ rows \in [1..len_tasks -> RowTexts]
    /\ winOpen \in BOOLEAN
    /\ last \in {"init", "Test", "other"}
    /\ \A t \in ThreadIds :
         /\ threads[t].run \in 1..nruns /\ threads[t].idx \in 0..(len_tasks - 1)
         /\ threads[t].pc \in {"start", "probing", "check", "schedule", "done", "died"}
         /\ threads[t].os \in OsOutcomes \cup {""}
         /\ threads[t].sock \in {"none", "closed", "open"}
    /\ \A i \in 1..Len(timers) :
         /\ timers[i].kind \in TimerKinds /\ timers[i].left \in 0..MaxDelay
         /\ i > 1 => timers[i - 1].left <= timers[i].left
    /\ \A r \in RunIds : (r < nruns => stop_flag[r]) /\ (r > nruns => ~stop_flag[r])

\* ----------------------------------------------------------------- claims
\* thread t delivered a notification (task started or task result) in this step
Notified(t) ==
    \/ ~threads[t].started /\ threads'[t].started
    \/ ~threads[t].reported /\ threads'[t].reported

\* C1: after a restart has registered the new run, no task-started and no
\* task-result notification of the old run is delivered any more: every
\* notification comes from the run that is registered when it is delivered.
C1_NoNotificationOfOldRun ==
    [][\A t \in ThreadIds : Notified(t) => threads[t].run = runs]_vars

\* C2: in every reachable state every run has at most one probe in flight.
C2_OneProbeInFlight ==
    \A r \in RunIds : Cardinality({t \in ThreadsOf(r) : InFlight(t)}) <= 1

\* C3: while no stop and no restart was ever requested (the first run's
\* stop_flag is unset), the indices dispatched for the run are 0, 1, 2, ...
\* in this order without gap or repeat, and they are all of 0..N-1 once
\* nothing of the run is left to happen in its open window.
C3_DispatchInOrder ==
    (nruns >= 1 /\ ~stop_flag[1]) =>
        /\ \A j \in 1..Len(Dispatched(1)) : Dispatched(1)[j] = j - 1
        /\ Len(Dispatched(1)) <= NumTasks
        /\ (winOpen /\ Quiescent(1)) => Len(Dispatched(1)) = NumTasks

\* C3 witness: an undisturbed run dispatched and reported every task
C3_Witness ==
    /\ nruns = 1 /\ ~stop_flag[1] /\ winOpen /\ Quiescent(1)
    /\ Len(Dispatched(1)) = NumTasks
    /\ \A t \in ThreadsOf(1) : threads[t].reported

\* C4: once a run's stop_flag is set it stays set, no further task of the run
\* is dispatched (no new worker of it), no task of it is marked as started
\* and its index does not change; and a run's index always is the index of
\* its last dispatched task.
C4_StopFreezesRun ==
    /\ [][\A r \in RunIds : stop_flag[r] =>
            /\ stop_flag'[r]
            /\ index'[r] = index[r]
            /\ Dispatched(r)' = Dispatched(r)
            /\ \A t \in ThreadsOf(r) : threads'[t].started = threads[t].started]_vars
    /\ [](\A r \in RunIds : Dispatched(r) # <<>> =>
            index[r] = Dispatched(r)[Len(Dispatched(r))])

\* C4 witness: a run stopped after its first task completed, with tasks left
\* and the continuation of the completed task still pending
C4_Witness ==
    \E r \in RunIds :
        /\ stop_flag[r] /\ winOpen
        /\ Len(Dispatched(r)) < NumTasks
        /\ \E t \in ThreadsOf(r) : threads[t].reported /\ ~Alive(t)
        /\ \E i \in 1..Len(timers) : timers[i].kind = "next"

\* C5: a probe that returns after its run was asked to stop is never
\* reported (its result is not written to the row).
C5_DiscardAfterStop ==
    \A t \in ThreadIds : threads[t].cancelled => ~threads[t].reported

\* C6: at most one run is not Stopped.
C6_OneActiveRun ==
    Cardinality({r \in 1..nruns : RunState(r) # "Stopped"}) <= 1

\* C7: within one run, task i+1 is marked as started only after task i was
\* marked as started and its result was delivered.
C7_NotificationsInOrder ==
    \A t, u \in ThreadIds :
        (threads[t].run = threads[u].run /\ threads[u].idx = threads[t].idx + 1
            /\ threads[u].started)
        => (threads[t].started /\ threads[t].reported)

\* C8: a Test request that finds the registered run Running or Stopping
\* stops it and creates no run within the request: it only schedules the
\* restart.
C8_RestartDeferred ==
    [][(last' = "Test" /\ runs # 0 /\ RunState(runs) \in {"Running", "Stopping"})
        => (nruns' = nruns /\ stop_flag'[runs]
            /\ PendingRestarts' = PendingRestarts + 1)]_vars

\* C9: a Test request that finds no registered run, or the registered run
\* Stopped, creates and registers the new run within the request and
\* schedules no restart.
C9_ImmediateStart ==
    [][(last' = "Test" /\ (runs = 0 \/ RunState(runs) = "Stopped"))
        => (nruns' = nruns + 1 /\ runs' = nruns + 1
            /\ PendingRestarts' = PendingRestarts)]_vars

C11_IndexNeverDecreases ==
    [][\A r \in RunIds : index'[r] >= index[r]]_vars

\* a row shows a terminal status: a result text, an error text or Cancelled
Terminal(text) == ~Unfinished(text)

C13_StopIdempotent ==
    /\ [](winOpen => ENABLED stop_running_tests)
    /\ [][stop_running_tests =>
            /\ runs' # 0 => (CancelRows(rows') = rows'
                             /\ stop(stop_flag', runs') = stop_flag')
            /\ UNCHANGED <<runs, nruns, index, winOpen, threads, timers>>]_vars

\* C13 witness: a run stopped by a Stop request while its probe was in flight,
\* with one row reported and one row cancelled
C13_Witness ==
    /\ runs # 0 /\ stop_flag[runs] /\ winOpen
    /\ \E t \in ThreadsOf(runs) : InFlight(t)
    /\ \E i \in DOMAIN rows : rows[i] = "Cancelled"
    /\ \E i \in DOMAIN rows : rows[i] \in {"SUCCESSFUL", "UNSUCCESSFUL"}

\* the threads whose probe has returned and whose worker still holds the result
Returned == {t \in ThreadIds : threads[t].os # ""}

\* C14: every outcome of the probe is either (success, elapsed time present,
\* no error text) or (failure, elapsed time absent, non-empty error text): a
\* failed connect never carries an elapsed time.
C14_OutcomeShape ==
    \A t \in Returned :
        LET res == connect_to_host(threads[t].os)
        IN  \/ res.success /\ res.elapsed /\ res.text = ""
            \/ ~res.success /\ ~res.elapsed /\ res.text # ""

\* why the probe failed, however the platform reported it
Cause(os) ==
    IF os \in {"code_timeout", "raise_timeout"} THEN "timeout"
    ELSE IF os \in {"code_refused", "raise_refused"} THEN "refused"
    ELSE "other"

\* C15: a failed probe is classified by its cause, whether the platform
\* reported it as a code returned by connect_ex or as an exception: a timeout
\* gives "Connection timed out", a refusal "Connection refused by remote
\* host", any other failure the message of the underlying fault.
C15_FailureClassified ==
    \A t \in Returned :
        threads[t].os # "connected" =>
            connect_to_host(threads[t].os).text =
                (IF Cause(threads[t].os) = "timeout" THEN "Connection timed out"
                 ELSE IF Cause(threads[t].os) = "refused"
                      THEN "Connection refused by remote host"
                 ELSE "Error: message")

\* C16: when the probe has returned, the socket it created is closed,
\* whatever the exit path.
C16_SocketClosed ==
    \A t \in ThreadIds : ~InFlight(t) => threads[t].sock # "open"

\* C17: once the result window is destroyed, by whatever path, `runs` has no
\* entry for its tree any more.
C17_EntryRemoved ==
    ~winOpen => runs = 0

\* C18: the probe never lets a fault out: whatever fails (socket creation,
\* bind, name resolution, connect), _connect_to_host returns a failure
\* outcome with an error text, no worker thread dies of it, and the worker
\* goes on to post the result and then to schedule the next task.
C18_NoFaultPropagates ==
    /\ [](\A t \in ThreadIds :
            /\ threads[t].pc # "died"
            /\ (t \in Returned /\ threads[t].os \in RaiseOutcomes) =>
                   /\ ~connect_to_host(threads[t].os).raised
                   /\ ~connect_to_host(threads[t].os).success
                   /\ connect_to_host(threads[t].os).text # "")
    /\ [][\A t \in ThreadIds :
            /\ (threads[t].pc = "probing" /\ threads'[t].pc # "probing") =>
                   /\ threads'[t].pc = "check"
                   /\ \E i \in 1..Len(timers') :
                          timers'[i].kind = "update_ui" /\ timers'[i].thr = t
            /\ (threads[t].pc = "check" /\ threads'[t].pc # "check"
                    /\ ~stop_flag[threads[t].run]) =>
                   threads'[t].pc = "schedule"
            /\ (threads[t].pc = "schedule" /\ threads'[t].pc # "schedule") =>
                   \E i \in 1..Len(timers') :
                       /\ timers'[i].kind = "next"
                       /\ timers'[i].idx = threads[t].idx + 1]_vars

\* C18 witness: a probe that ended in an exception was reported as an error
\* and the task after it was dispatched
C18_Witness ==
    \E t, u \in ThreadIds :
        /\ threads[t].sock = "open" /\ threads[t].reported
        /\ rows[threads[t].idx + 1] = "Error: message"
        /\ threads[u].run = threads[t].run /\ threads[u].idx = threads[t].idx + 1

\* the place of a state of a run in the order Running, Stopping, Stopped
StateRank(st) == IF st = "Running" THEN 0 ELSE IF st = "Stopping" THEN 1 ELSE 2

\* C19: once stop was requested on a run, no step of any kind clears its
\* stop_flag, its state only moves from Stopping to Stopped, never back, and
\* the run dispatches no further task.
C19_StopIsForward ==
    [][\A r \in RunIds : stop_flag[r] =>
          /\ stop_flag'[r]
          /\ StateRank(RunState(r))' >= StateRank(RunState(r))
          /\ Len(Dispatched(r))' = Len(Dispatched(r))]_vars

\* C19 witness: a run that was stopped while its probe was in flight
\* (Stopping), whose probe has returned since (Stopped) and which was
\* replaced by a restart
C19_Witness ==
    \E r \in RunIds :
        /\ stop_flag[r] /\ RunState(r) = "Stopped" /\ r < nruns
        /\ \E t \in ThreadsOf(r) : threads[t].cancelled /\ ~Alive(t)

\* every task of run r was dispatched and its result written to its row
AllReported(r) ==
    \A i \in 0..(len_tasks - 1) :
        \E t \in ThreadsOf(r) : threads[t].idx = i /\ threads[t].reported

\* C20: a run that is never asked to stop eventually has dispatched and
\* reported every one of its tasks, whatever the outcomes of its probes.
C20_RunCompletes ==
    (nruns = 1) ~> AllReported(1)

\* C20 witness: a run that reported all its tasks, the first of them failed
C20_Witness ==
    /\ nruns = 1 /\ AllReported(1) /\ Quiescent(1)
    /\ rows[1] \in {"UNSUCCESSFUL", "Error: message"}

\* run r is asked to stop in this step
StopRequested(r) == ~stop_flag[r] /\ stop_flag'[r]

\* C21: a step that stops a run changes, of all the runs, only that run's
\* stop_flag: every index, the task list, the registry and the flags of the
\* other runs are as before, and no worker thread is touched; and a probe in
\* flight can always return, whether or not its run was stopped.
C21_StopFrame ==
    /\ [][\A r \in RunIds : StopRequested(r) =>
            /\ index' = index
            /\ len_tasks' = len_tasks
            /\ runs' = runs /\ nruns' = nruns
            /\ threads' = threads
            /\ \A q \in RunIds \ {r} : stop_flag'[q] = stop_flag[q]]_vars
    /\ [](\A t \in ThreadIds :
            threads[t].pc = "probing" => ENABLED WorkerProbeDone(t))

\* C21 witness: a probe that was in flight when its run was stopped has
\* returned since
C21_Witness ==
    \E t \in ThreadIds :
        /\ threads[t].cancelled /\ threads[t].pc = "check"
        /\ stop_flag[threads[t].run]

\* max(0, d), written out
Max0(d) == IF d > 0 THEN d ELSE 0

\* C22: a worker that finds its run's stop_flag set schedules no
\* continuation; one that finds it unset schedules the next dispatch (of
\* index + 1) after max(0, delay); the task dispatched by a continuation
\* carries the continuation's clamped delay; and every later task of a run
\* carries the clamped value of the delay the run was started with (compared
\* while the worker of the run's task 0 still holds that delay).
C22_ClampedDelay ==
    /\ [][\A t \in ThreadIds :
            /\ (threads[t].pc = "check" /\ stop_flag[threads[t].run]
                    /\ threads'[t].pc # "check")
                  => (threads'[t].pc = "done" /\ timers' = timers)
            /\ (threads[t].pc = "schedule" /\ threads'[t].pc # "schedule")
                  => timers' = InsertTimer(timers,
                                  Timer("next", t, threads[t].idx + 1,
                                        Max0(threads[t].delay), "",
                                        Max0(threads[t].delay)))]_vars
    /\ [][(Len(threads') > Len(threads) /\ threads'[Len(threads')].idx > 0) =>
            /\ threads'[Len(threads')].delay = Head(timers).delay
            /\ threads'[Len(threads')].delay >= 0]_vars
    /\ [](\A t, u \in ThreadIds :
            (threads[t].run = threads[u].run /\ Alive(t) /\ Alive(u)
                /\ threads[t].idx = 0 /\ threads[u].idx > 0)
            => threads[u].delay = Max0(threads[t].delay))

\* the run whose worker scheduled the continuation that is due
ContinuationOf == threads[Head(timers).thr].run

\* C23: a continuation that fires when the run that scheduled it is no longer
\* the registered one does nothing: it dispatches no probe, and leaves the
\* index and the rows of the registered run as they are.
C23_StaleContinuationInert ==
    [][(run_task_async /\ ContinuationOf # runs) =>
          (threads' = threads /\ index' = index /\ rows' = rows)]_vars

\* C24: a deferred restart that fires stops no run.  (The run it was
\* requested for was stopped by the request and stays stopped, so a run the
\* restart finds unstopped was created after the request.)
C24_RestartStopsNoRun ==
    [][Restart => \A r \in RunIds : ~StopRequested(r)]_vars

\* C25: once the result window is destroyed, by the close button or by
\* Escape, the run registered for its tree has its stop_flag set and no
\* further probe is dispatched.
C25_CloseStopsRun ==
    /\ [](~winOpen /\ runs # 0 => stop_flag[runs])
    /\ [][~winOpen => Len(threads') = Len(threads)]_vars

\* C26: a Stop request with a run registered turns to "Cancelled" exactly the
\* rows that show "Testing" or "Not tested" and leaves every other row as it
\* is; with no run registered it changes neither a row nor anything else.
C26_StopCancelsUnfinishedRows ==
    [][stop_running_tests =>
          /\ runs # 0 =>
                \A i \in DOMAIN rows :
                    rows'[i] = IF rows[i] \in {"Testing", "Not tested"}
                               THEN "Cancelled" ELSE rows[i]
          /\ runs = 0 =>
                /\ rows' = rows /\ stop_flag' = stop_flag
                /\ UNCHANGED <<runs, nruns, index, winOpen, threads, timers>>]_vars

\* C26 witness: after a Stop request the first row still shows its result and
\* the row that was being tested shows Cancelled
C26_Witness ==
    /\ runs # 0 /\ stop_flag[runs] /\ winOpen
    /\ rows[1] \in {"SUCCESSFUL", "UNSUCCESSFUL"}
    /\ rows[len_tasks] = "Cancelled"
    /\ index[runs] = len_tasks - 1
====
